---- MODULE Spec2Model ----
(***************************************************************************)
(* Model of the Santa 2024 Perplexity Analyzer: utils/analysisUtils.ts     *)
(* (analyzeFiles), utils/perplexityUtils.ts (calculatePerplexity) and the  *)
(* scoring route app/api/perplexity/route.ts.                              *)
(*                                                                         *)
(* JavaScript values are records with a kind field k, so that a number, a  *)
(* string, null, undefined and NaN can be told apart and compared.  A      *)
(* number is the fraction n/d; a string is the sequence s of its           *)
(* characters.                                                             *)
(***************************************************************************)
EXTENDS Integers, Sequences, FiniteSets, TLC

VARIABLES
  selectedFiles,   \* analyzeFiles: the FileData[] it is called with
  outcome,         \* analyzeFiles: "pending", "resolved" or "rejected"
  result,          \* analyzeFiles: the AnalysisResult it resolves with
  text,            \* calculatePerplexity: the text argument
  stack,           \* calculatePerplexity: the frames of the call and its self-calls
  pc,              \* calculatePerplexity: position of the innermost frame
  response,        \* calculatePerplexity: what fetch settled with
  score,           \* calculatePerplexity: the value the promise resolves with
  scoredBy,        \* calculatePerplexity: the branch that produced score
  hookCalls,       \* calculatePerplexity: calls of onApiError so far
  fetches,         \* calculatePerplexity: calls of fetch so far
  perplexityValues, \* histogram: the scores of one file, lines 93
  distribution,    \* histogram: the buckets with their counts
  histPc,          \* histogram: "idle", "called" or "built"
  perplexityScores, \* best texts: name and scores of every file, line 74
  bestTexts,       \* best texts: the record of lowest perplexity of every id
  bestPc,          \* best texts: "idle", "called" or "built"
  files,           \* Home: the uploaded FileData, in upload order
  selectedFileIds, \* Home: the ids of the ticked files, in tick order
  activeTab,       \* Home: "upload" or "analysis"
  analysisResult,  \* Home: null or the result of the last successful run
  loading,         \* Home: the spinner replaces the tab content
  error,           \* Home: null or the message shown
  useRemoteApi,    \* Home: the scoring strategy ticked
  uploads,         \* the batches handleFileUpload is still processing
  runs,            \* the handleAnalyzeFiles calls awaiting analyzeFiles
  nextFileId,      \* the id processFile gives the next file
  strategy,        \* analyzeFiles with scoring: its useRemoteApi argument
  calls,           \* analyzeFiles with scoring: the calculatePerplexity call
                   \* of every record of every file
  onApiErrorCalls  \* analyzeFiles with scoring: calls of its onApiError

analyzeVars == <<selectedFiles, outcome, result>>
scoreVars == <<text, stack, pc, response, score, scoredBy, hookCalls, fetches>>
histVars == <<perplexityValues, distribution, histPc>>
bestVars == <<perplexityScores, bestTexts, bestPc>>
pageVars == <<files, selectedFileIds, activeTab, analysisResult, loading, error,
              useRemoteApi, uploads, runs, nextFileId>>
scoringVars == <<strategy, calls, onApiErrorCalls>>
vars == <<selectedFiles, outcome, result,
          text, stack, pc, response, score, scoredBy, hookCalls, fetches,
          perplexityValues, distribution, histPc,
          perplexityScores, bestTexts, bestPc,
          files, selectedFileIds, activeTab, analysisResult, loading, error,
          useRemoteApi, uploads, runs, nextFileId,
          strategy, calls, onApiErrorCalls>>

\* What the actions of one part leave alone: the variables of the others.
notAnalyzeVars == <<scoreVars, histVars, bestVars, pageVars, scoringVars>>
notScoreVars == <<analyzeVars, histVars, bestVars, pageVars, scoringVars>>
notHistVars == <<analyzeVars, scoreVars, bestVars, pageVars, scoringVars>>
notBestVars == <<analyzeVars, scoreVars, histVars, pageVars, scoringVars>>
notPageVars == <<analyzeVars, scoreVars, histVars, bestVars, scoringVars>>
notScoringVars == <<scoreVars, histVars, bestVars, pageVars>>

----------------------------------------------------------------------------
(* Bounds of the inputs.                                                   *)
MaxLen == 3        \* characters in a free text
MaxRows == 2       \* records in a dataset
RandSteps == 2     \* Math.random() draws one of 0/RandSteps .. (RandSteps-1)/RandSteps
MaxDepth == 2      \* frames of calculatePerplexity that may still call fetch
MaxScores == 3     \* scores in one histogram
MaxScored == 3     \* scored records of all files together
MaxUploaded == 2   \* files handed to processFile in one session
MaxCalls == 3      \* records scored in one call of analyzeFiles

----------------------------------------------------------------------------
(* JavaScript values.                                                      *)
Frac(a, b) == [k |-> "num", n |-> a, d |-> b, s |-> <<>>]
Num(a) == Frac(a, 1)
Str(t) == [k |-> "str", n |-> 0, d |-> 1, s |-> t]
Null == [k |-> "null", n |-> 0, d |-> 1, s |-> <<>>]
Undefined == [k |-> "undefined", n |-> 0, d |-> 1, s |-> <<>>]
NaN == [k |-> "NaN", n |-> 0, d |-> 1, s |-> <<>>]

\* ToBoolean: null, undefined, NaN, 0 and "" are falsy.
Truthy(x) ==
  CASE x.k = "num" -> x.n # 0
    [] x.k = "str" -> x.s # <<>>
    [] OTHER -> FALSE

\* x || y
OrElse(x, y) == IF Truthy(x) THEN x ELSE y

----------------------------------------------------------------------------
(* Strings: String.prototype.split(' ').                                   *)
Chars == {"a", "b", " "}

RECURSIVE SplitRec(_, _, _)
SplitRec(s, i, cur) ==
  IF i > Len(s) THEN <<cur>>
  ELSE IF s[i] = " " THEN <<cur>> \o SplitRec(s, i + 1, <<>>)
  ELSE SplitRec(s, i + 1, Append(cur, s[i]))

\* s.split(' '): the pieces between single spaces, empty pieces included;
\* "".split(' ') is [""].
Split(s) == SplitRec(s, 1, <<>>)

Range(f) == {f[i] : i \in DOMAIN f}

RECURSIVE SumSeq(_)
SumSeq(q) == IF q = <<>> THEN 0 ELSE q[1] + SumSeq(Tail(q))

----------------------------------------------------------------------------
(* lodash: _.mean, _.max, _.min.                                           *)
\* _.mean of an array of integers: NaN for the empty array.
Mean(q) == IF Len(q) = 0 THEN NaN ELSE Frac(SumSeq(q), Len(q))

\* _.max / _.min: undefined for the empty array.
MaxOf(q) ==
  IF Len(q) = 0 THEN Undefined
  ELSE Num(CHOOSE m \in Range(q) : \A x \in Range(q) : x <= m)

MinOf(q) ==
  IF Len(q) = 0 THEN Undefined
  ELSE Num(CHOOSE m \in Range(q) : \A x \in Range(q) : m <= x)

\* parseFloat(x.toFixed(2)): x rounded to hundredths (half up); NaN stays NaN.
ToFixed2(x) ==
  IF x.k # "num" THEN NaN
  ELSE Frac((200 * x.n + x.d) \div (2 * x.d), 100)

----------------------------------------------------------------------------
(* analyzeFiles, lines 12-24: basic file statistics.                       *)
\* row.text ? row.text.toString().split(' ').length : 0
WordCount(row) ==
  IF Truthy(row.text) THEN Len(Split(row.text.s)) ELSE 0

TextLengths(file) == [i \in 1..Len(file.data) |-> WordCount(file.data[i])]

RowCountWithText(file) ==
  Len(SelectSeq(file.data, LAMBDA row : Truthy(row.text)))

RowCount(file) == Len(file.data)

FileStatsOf(file) ==
  [ name |-> file.name,
    rowCount |-> RowCount(file),
    avgWordCount |-> ToFixed2(Mean(TextLengths(file))),
    maxWordCount |-> OrElse(MaxOf(TextLengths(file)), Num(0)),
    minWordCount |-> OrElse(MinOf(TextLengths(file)), Num(0)) ]

FileStats(fs) == [i \in 1..Len(fs) |-> FileStatsOf(fs[i])]

----------------------------------------------------------------------------
(* lodash: _.uniq, _.intersection, _.union, _.countBy, Array.find.         *)
RECURSIVE UniqRec(_, _)
UniqRec(q, seen) ==
  IF q = <<>> THEN <<>>
  ELSE IF q[1] \in seen THEN UniqRec(Tail(q), seen)
  ELSE <<q[1]>> \o UniqRec(Tail(q), seen \cup {q[1]})

\* _.uniq(q): the first occurrence of every value, in order.
Uniq(q) == UniqRec(q, {})

RECURSIVE Flatten(_)
Flatten(qs) == IF qs = <<>> THEN <<>> ELSE qs[1] \o Flatten(Tail(qs))

\* _.intersection(...arrays): the unique values of the first array that are
\* in every other array, in the order of the first array.
Intersection(arrays) ==
  IF Len(arrays) = 0 THEN <<>>
  ELSE SelectSeq(Uniq(arrays[1]),
         LAMBDA x : \A j \in 1..Len(arrays) : x \in Range(arrays[j]))

\* _.union(...arrays): the unique values of all arrays, in order.
Union(arrays) == Uniq(Flatten(arrays))

\* _.countBy(tokens): token -> number of occurrences.
CountBy(tokens) ==
  [t \in Range(tokens) |-> Cardinality({i \in DOMAIN tokens : tokens[i] = t})]

\* data.find(row => row.id === id): the first such row, or undefined.
FindLastRow(data, id) ==
  IF \E i \in DOMAIN data : data[i].id = id
  THEN [found |-> TRUE,
        row |-> data[CHOOSE i \in DOMAIN data :
                       /\ data[i].id = id
                       /\ \A j \in DOMAIN data : data[j].id = id => j <= i]]
  ELSE [found |-> FALSE, row |-> [id |-> Undefined, text |-> Undefined]]

FindRow(data, id) ==
  IF \E i \in DOMAIN data : data[i].id = id
  THEN [found |-> TRUE,
        row |-> data[CHOOSE i \in DOMAIN data :
                       /\ data[i].id = id
                       /\ \A j \in DOMAIN data : data[j].id = id => i <= j]]
  ELSE [found |-> FALSE, row |-> [id |-> Undefined, text |-> Undefined]]

----------------------------------------------------------------------------
(* analyzeFiles, lines 26-71: comparison of the first two files.           *)
\* row.text?.toString() || ''
CoerceText(cell) ==
  IF cell.k \in {"null", "undefined"} THEN <<>> ELSE cell.s

\* _.isEqual(_.countBy(text1.split(' ')), _.countBy(text2.split(' ')))
WordsMatch(text1, text2) == CountBy(Split(text1)) = CountBy(Split(text2))

TextsDifferentByLength(text1, text2) == Len(text1) # Len(text2)

\* text1 !== text2
TextsDifferent(text1, text2) == text1 # text2

RowIds(file) == [i \in 1..Len(file.data) |-> file.data[i].id]

ComparisonRow(file1, file2, id) ==
  LET text1 == CoerceText(FindRow(file1.data, id).row.text)
      text2 == CoerceText(FindRow(file2.data, id).row.text)
  IN [ id |-> id,
       file1Text |-> text1,
       file2Text |-> text2,
       wordsMatch |-> WordsMatch(text1, text2),
       textsDifferent |-> TextsDifferent(text1, text2) ]

CommonIdsOfPairByFile2(file1, file2) ==
  Intersection(<<RowIds(file2), RowIds(file1)>>)

\* _.intersection(file1Ids, file2Ids)
CommonIdsOfPair(file1, file2) == Intersection(<<RowIds(file1), RowIds(file2)>>)

ComparisonData(file1, file2) ==
  LET commonIds == SelectSeq(CommonIdsOfPair(file1, file2),
                     LAMBDA id : /\ FindRow(file1.data, id).found
                                 /\ FindRow(file2.data, id).found)
  IN [i \in 1..Len(commonIds) |-> ComparisonRow(file1, file2, commonIds[i])]

CompareFiles(file1, file2) ==
  LET comparisonData == ComparisonData(file1, file2)
  IN [ isNull |-> FALSE,
       file1Name |-> file1.name,
       file2Name |-> file2.name,
       data |-> comparisonData,
       differentTexts |->
         Len(SelectSeq(comparisonData, LAMBDA item : item.textsDifferent)),
       sameWords |->
         Len(SelectSeq(comparisonData, LAMBDA item : item.wordsMatch)) ]

\* let comparison = null
NullComparison ==
  [ isNull |-> TRUE, file1Name |-> "", file2Name |-> "", data |-> <<>>,
    differentTexts |-> 0, sameWords |-> 0 ]

ComparisonOfLastTwo(fs) ==
  IF Len(fs) > 1
  THEN CompareFiles(fs[Len(fs) - 1], fs[Len(fs)])
  ELSE NullComparison

ComparisonOf(fs) ==
  IF Len(fs) > 1 THEN CompareFiles(fs[1], fs[2]) ELSE NullComparison

----------------------------------------------------------------------------
(* analyzeFiles, lines 134-140: ids common to all files, ids in any file.  *)
RECURSIVE Digits(_)
Digits(n) ==
  IF n < 10 THEN <<ToString(n)>>
  ELSE Digits(n \div 10) \o <<ToString(n % 10)>>

\* row.id.toString(), for a number (a non-negative integer) or a string.
IdToString(id) == IF id.k = "num" THEN Digits(id.n) ELSE id.s

\* row.id.toString() throws a TypeError on null and undefined.
IdToStringThrows(fs) ==
  \E i \in DOMAIN fs : \E j \in DOMAIN fs[i].data :
    fs[i].data[j].id.k \in {"null", "undefined"}

AllIds(fs) ==
  [i \in 1..Len(fs) |->
     [j \in 1..Len(fs[i].data) |-> IdToString(fs[i].data[j].id)]]

CommonIdsFirstTwo(fs) ==
  Len(Intersection(SubSeq(AllIds(fs), 1, IF Len(fs) < 2 THEN Len(fs) ELSE 2)))

CommonIds(fs) == Len(Intersection(AllIds(fs)))

TotalUniqueIds(fs) == Len(Union(AllIds(fs)))

----------------------------------------------------------------------------
(* The inputs of analyzeFiles.                                             *)
Strings(cs, n) == UNION {[1..m -> cs] : m \in 0..n}

\* A parsed text cell: a string, or null for an empty cell.
TextVals == {Str(t) : t \in Strings(Chars, MaxLen)} \cup {Null}

Row(id, cell) == [id |-> id, text |-> cell]
File(name, data) == [name |-> name, data |-> data]

SeqsUpTo(S, n) == UNION {[1..m -> S] : m \in 0..n}

\* One dataset whose records all carry the id 1 and a text of spaces and "a".
StatTexts == {Str(t) : t \in Strings({"a", " "}, MaxLen)} \cup {Null}
StatRows == {Row(Num(1), t) : t \in StatTexts}
FamStats == {<<File("f1", data)>> : data \in SeqsUpTo(StatRows, MaxRows)}

\* Two datasets of one record each, with the same id and free texts.
FamPair ==
  {<<File("f1", <<Row(Num(1), t1)>>), File("f2", <<Row(Num(1), t2)>>)>> :
     t1 \in TextVals, t2 \in TextVals}

\* Two datasets over two ids and two texts.
Ids == {Num(1), Num(2)}
IdRows == {Row(id, Str(t)) : id \in Ids, t \in {<<"a">>, <<"b">>}}
IdData == SeqsUpTo(IdRows, MaxRows)
FamIds == {<<File("f1", d1), File("f2", d2)>> : d1 \in IdData, d2 \in IdData}

\* One, two or three datasets over two ids, every text being "a".
PlainRows == {Row(id, Str(<<"a">>)) : id \in Ids}
PlainData == SeqsUpTo(PlainRows, MaxRows)
FileNames == <<"f1", "f2", "f3">>
FamMany ==
  UNION {{[i \in 1..m |-> File(FileNames[i], ds[i])] : ds \in [1..m -> PlainData]} :
           m \in 1..Len(FileNames)}

\* One dataset in which the id cell of a record may be empty (null).
NullIdRows == {Row(id, Str(<<"a">>)) : id \in {Num(1), Null}}
FamNullId == {<<File("f1", data)>> : data \in SeqsUpTo(NullIdRows, MaxRows)}

\* The texts of the specification's examples.
TheCatSat == <<"t","h","e"," ","c","a","t"," ","s","a","t">>
TheDogRan == <<"t","h","e"," ","d","o","g"," ","r","a","n">>
ADogRan == <<"a"," ","d","o","g"," ","r","a","n">>
ExampleA == File("A", <<Row(Num(1), Str(TheCatSat)), Row(Num(2), Str(TheDogRan))>>)
ExampleB == File("B", <<Row(Num(1), Str(TheCatSat)), Row(Num(2), Str(ADogRan))>>)
ExamplePairs ==
  { <<<<"a"," ","b"," ","a">>, <<"a"," ","a"," ","b">>>>,
    <<<<"a"," ","b">>, <<"a"," ","b"," ","b">>>>,
    <<<<"a"," "," ","b">>, <<"b"," ","a">>>> }
FamExamples ==
  {<<ExampleA, ExampleB>>, <<ExampleB, ExampleA>>}
  \cup {<<File("f1", <<Row(Num(1), Str(p[1]))>>),
          File("f2", <<Row(Num(1), Str(p[2]))>>)>> : p \in ExamplePairs}
  \cup {<<File("f1", <<Row(Num(1), Str(p[2]))>>),
          File("f2", <<Row(Num(1), Str(p[1]))>>)>> : p \in ExamplePairs}

\* selectedFiles is drawn from one of the families.
IsInput(fs) ==
  \/ fs \in FamStats
  \/ fs \in FamPair
  \/ fs \in FamIds
  \/ fs \in FamMany
  \/ fs \in FamNullId
  \/ fs \in FamExamples

----------------------------------------------------------------------------
(* calculatePerplexity (utils/perplexityUtils.ts) and the route POST       *)
(* /api/perplexity (app/api/perplexity/route.ts).                          *)
ScoreChars == {"a", "A", " "}

\* String.prototype.toLowerCase
LowerChar(c) == IF c = "A" THEN "a" ELSE c
ToLowerCase(t) == [i \in 1..Len(t) |-> LowerChar(t[i])]

\* The local strategy with only the non-empty pieces counted as words.
LocalScoreOfNonEmptyWords(t, r) ==
  LET wordCount == Len(SelectSeq(Split(t), LAMBDA w : w # <<>>))
      uniqueWords == Cardinality(Range(Split(ToLowerCase(t))))
  IN Frac(5 * wordCount * RandSteps + 25 * (wordCount - uniqueWords) * r,
          wordCount * RandSteps)

\* Lines 78-85, with Math.random() = r / RandSteps:
\* 5 + 25 * (1 - uniqueWords / wordCount) * Math.random()
LocalScore(t, r) ==
  LET wordCount == Len(Split(t))
      uniqueWords == Cardinality(Range(Split(ToLowerCase(t))))
  IN Frac(5 * wordCount * RandSteps + 25 * (wordCount - uniqueWords) * r,
          wordCount * RandSteps)

\* What the Python service answers to the route: no connection, a non-2xx
\* status, a 2xx body that is not JSON, the JSON value null, or a JSON
\* object whose perplexity member is a number, missing, null or a string.
PythonOutcomes ==
  {[kind |-> x, perplexity |-> Undefined] :
     x \in {"unreachable", "error", "notJson", "jsonNull"}}
  \cup {[kind |-> "json", perplexity |-> v] :
          v \in {Num(7), Num(42), Undefined, Null, Str(<<"x">>)}}

NoResponse == [kind |-> "none", ok |-> FALSE, status |-> 0, perplexity |-> Undefined]
NetworkError ==
  [kind |-> "networkError", ok |-> FALSE, status |-> 0, perplexity |-> Undefined]
HttpResponse(status, perplexity) ==
  [ kind |-> "response", ok |-> (status >= 200 /\ status <= 299),
    status |-> status, perplexity |-> perplexity ]

\* route.ts POST, lines 7-41: 400 for a missing or empty text, 500 when the
\* call of the Python service throws, else 200 with { perplexity }.
\* JSON.stringify leaves out a member whose value is undefined.
RoutePost(t, py) ==
  IF t = <<>> THEN HttpResponse(400, Undefined)
  ELSE IF py.kind # "json" THEN HttpResponse(500, Undefined)
  ELSE HttpResponse(200, py.perplexity)

Frame(remote, hook) == [useRemoteApi |-> remote, hasHook |-> hook]
Top == stack[Len(stack)]

\* Lines 97-102: throw on !response.ok, else return data.perplexity.
ResponseThrows(resp) == resp.kind = "networkError" \/ ~resp.ok

CatchRetriesRemote(frame) ==
  [pc |-> "called", hook |-> frame.hasHook, frames |-> <<Frame(TRUE, FALSE)>>]

CatchRethrows(frame) ==
  [pc |-> "rejected", hook |-> frame.hasHook, frames |-> <<>>]

\* Lines 103-109: if (onApiError) onApiError();
\* return calculatePerplexity(text, false)
Catch(frame) ==
  [pc |-> "called", hook |-> frame.hasHook, frames |-> <<Frame(FALSE, FALSE)>>]

NoResult ==
  [ fileStats |-> <<>>, comparison |-> NullComparison,
    commonIds |-> 0, totalUniqueIds |-> 0 ]

ScoreTexts == Strings(ScoreChars, MaxLen)

ScoreIdle ==
  /\ text = <<>>
  /\ stack = <<>>
  /\ pc = "idle"
  /\ response = NoResponse
  /\ score = Undefined
  /\ scoredBy = "none"
  /\ hookCalls = 0
  /\ fetches = 0

AnalyzeIdle ==
  /\ selectedFiles = <<>>
  /\ outcome = "idle"
  /\ result = NoResult

HistIdle ==
  /\ perplexityValues = <<>>
  /\ distribution = <<>>
  /\ histPc = "idle"

\* Home, lines 1072-1078: the initial state of the page.
PageIdle ==
  /\ files = <<>>
  /\ selectedFileIds = <<>>
  /\ activeTab = "upload"
  /\ analysisResult = Null
  /\ loading = FALSE
  /\ error = <<>>
  /\ useRemoteApi = FALSE
  /\ uploads = <<>>
  /\ runs = <<>>
  /\ nextFileId = 1

ScoringIdle ==
  /\ strategy = FALSE
  /\ calls = <<>>
  /\ onApiErrorCalls = 0

BestIdle ==
  /\ perplexityScores = <<>>
  /\ bestTexts = <<>>
  /\ bestPc = "idle"

\* A call calculatePerplexity(text, useRemoteApi, onApiError?).
InitScore ==
  /\ AnalyzeIdle
  /\ HistIdle
  /\ BestIdle
  /\ PageIdle
  /\ ScoringIdle
  /\ text \in ScoreTexts
  /\ \E remote \in BOOLEAN, hook \in BOOLEAN : stack = <<Frame(remote, hook)>>
  /\ pc = "called"
  /\ response = NoResponse
  /\ score = Undefined
  /\ scoredBy = "none"
  /\ hookCalls = 0
  /\ fetches = 0

\* Lines 76-86: the local strategy.
ScoreLocally ==
  /\ pc = "called"
  /\ ~Top.useRemoteApi
  /\ \E r \in 0..(RandSteps - 1) : score' = LocalScore(text, r)
  /\ scoredBy' = "local"
  /\ pc' = "returned"
  /\ UNCHANGED <<text, stack, response, hookCalls, fetches>>
  /\ UNCHANGED notScoreVars

\* Lines 88-95: fetch is called and awaited.
SendFetch ==
  /\ pc = "called"
  /\ Top.useRemoteApi
  /\ Len(stack) <= MaxDepth
  /\ fetches' = fetches + 1
  /\ pc' = "fetching"
  /\ UNCHANGED <<text, stack, response, score, scoredBy, hookCalls>>
  /\ UNCHANGED notScoreVars

\* The route handles the request and its response reaches the caller.
RouteResponds ==
  /\ pc = "fetching"
  /\ \E py \in PythonOutcomes : response' = RoutePost(text, py)
  /\ pc' = "responded"
  /\ UNCHANGED <<text, stack, score, scoredBy, hookCalls, fetches>>
  /\ UNCHANGED notScoreVars

\* fetch rejects: the route cannot be reached.
FetchRejects ==
  /\ pc = "fetching"
  /\ response' = NetworkError
  /\ pc' = "responded"
  /\ UNCHANGED <<text, stack, score, scoredBy, hookCalls, fetches>>
  /\ UNCHANGED notScoreVars

\* Lines 97-102: a 2xx response is parsed and data.perplexity returned.
ReturnRemote ==
  /\ pc = "responded"
  /\ ~ResponseThrows(response)
  /\ score' = response.perplexity
  /\ scoredBy' = "remote"
  /\ pc' = "returned"
  /\ UNCHANGED <<text, stack, response, hookCalls, fetches>>
  /\ UNCHANGED notScoreVars

\* Lines 103-109: the catch block.
CatchFailure ==
  /\ pc = "responded"
  /\ ResponseThrows(response)
  /\ hookCalls' = hookCalls + (IF Catch(Top).hook THEN 1 ELSE 0)
  /\ stack' = stack \o Catch(Top).frames
  /\ pc' = Catch(Top).pc
  /\ UNCHANGED <<text, response, score, scoredBy, fetches>>
  /\ UNCHANGED notScoreVars

NextScore ==
  \/ ScoreLocally
  \/ SendFetch
  \/ RouteResponds
  \/ FetchRejects
  \/ ReturnRemote
  \/ CatchFailure

SpecScore == InitScore /\ [][NextScore]_vars

----------------------------------------------------------------------------
(* analyzeFiles as a function of selectedFiles.  perplexityScores and      *)
(* bestTexts (lines 73-132) do not enter fileStats, comparison, commonIds  *)
(* or totalUniqueIds and are modelled by the scoring specifications.       *)
AnalysisOf(fs) ==
  [ fileStats |-> FileStats(fs),
    comparison |-> ComparisonOf(fs),
    commonIds |-> CommonIds(fs),
    totalUniqueIds |-> TotalUniqueIds(fs) ]

InitAnalyze ==
  /\ IsInput(selectedFiles)
  /\ outcome = "pending"
  /\ result = NoResult
  /\ ScoreIdle
  /\ HistIdle
  /\ BestIdle
  /\ PageIdle
  /\ ScoringIdle

\* The call resolves with the AnalysisResult.
AnalyzeFilesResolves ==
  /\ outcome = "pending"
  /\ ~IdToStringThrows(selectedFiles)
  /\ outcome' = "resolved"
  /\ result' = AnalysisOf(selectedFiles)
  /\ UNCHANGED selectedFiles
  /\ UNCHANGED notAnalyzeVars

\* The call rejects: row.id.toString() threw on line 136.
AnalyzeFilesRejects ==
  /\ outcome = "pending"
  /\ IdToStringThrows(selectedFiles)
  /\ outcome' = "rejected"
  /\ UNCHANGED <<selectedFiles, result>>
  /\ UNCHANGED notAnalyzeVars

NextAnalyze == AnalyzeFilesResolves \/ AnalyzeFilesRejects

SpecAnalyze == InitAnalyze /\ [][NextAnalyze]_vars

----------------------------------------------------------------------------
(* Arithmetic of the numbers n/d (d > 0, n >= 0).                          *)
Less(x, y) == x.k = "num" /\ y.k = "num" /\ x.n * y.d < y.n * x.d
AtMost(x, y) == x.k = "num" /\ y.k = "num" /\ x.n * y.d <= y.n * x.d
Add(x, y) == Frac(x.n * y.d + y.n * x.d, x.d * y.d)
Sub(x, y) == Frac(x.n * y.d - y.n * x.d, x.d * y.d)
Div(x, y) == Frac(x.n * y.d, x.d * y.n)
Times(i, x) == Frac(i * x.n, x.d)
Floor(x) == x.n \div x.d
Ceil(x) == (x.n + x.d - 1) \div x.d

\* _.min / _.max of an array of scores (baseExtremum): the first smallest /
\* greatest number; entries that are null, undefined or NaN are skipped;
\* undefined when no entry is left.
MinValue(q) ==
  LET nums == {i \in DOMAIN q : q[i].k = "num"}
  IN IF nums = {} THEN Undefined
     ELSE q[CHOOSE i \in nums :
              /\ \A j \in nums : AtMost(q[i], q[j])
              /\ \A j \in nums : j < i => Less(q[i], q[j])]

MaxValue(q) ==
  LET nums == {i \in DOMAIN q : q[i].k = "num"}
  IN IF nums = {} THEN Undefined
     ELSE q[CHOOSE i \in nums :
              /\ \A j \in nums : AtMost(q[j], q[i])
              /\ \A j \in nums : j < i => Less(q[j], q[i])]

\* _.range(start, end, step) with start <= end and step >= 0:
\* max(ceil((end - start) / (step || 1)), 0) entries start + i * step.
LodashRange(start, end, step) ==
  LET length == Ceil(Div(Sub(end, start), OrElse(step, Num(1))))
  IN [i \in 1..length |-> Add(start, Times(i - 1, step))]

----------------------------------------------------------------------------
(* analyzeFiles, lines 92-105: the histogram of the scores of one file.    *)
HistMin(q) == Floor(OrElse(MinValue(q), Num(0)))
HistMax(q) == Ceil(OrElse(MaxValue(q), Num(30)))
BucketSize(q) == Frac(HistMax(q) - HistMin(q), 10)

Buckets(q) ==
  LodashRange(Num(HistMin(q)), Add(Num(HistMax(q)), BucketSize(q)),
              BucketSize(q))

\* p >= bucket && p < bucket + bucketSize
InBucket(p, bucket, bucketSize) ==
  AtMost(bucket, p) /\ Less(p, Add(bucket, bucketSize))

Distribution(q) ==
  LET buckets == Buckets(q)
      bucketSize == BucketSize(q)
  IN [b \in DOMAIN buckets |->
        [ bucket |-> buckets[b],
          count |-> Cardinality({i \in DOMAIN q :
                                   InBucket(q[i], buckets[b], bucketSize)}) ]]

\* The scores a file may have.
HistValues == {Num(5), Frac(11, 2), Num(6), Frac(25, 4), Num(7)}

InitHist ==
  /\ AnalyzeIdle
  /\ ScoreIdle
  /\ BestIdle
  /\ PageIdle
  /\ ScoringIdle
  /\ perplexityValues \in SeqsUpTo(HistValues, MaxScores)
  /\ distribution = <<>>
  /\ histPc = "called"

BuildDistribution ==
  /\ histPc = "called"
  /\ distribution' = Distribution(perplexityValues)
  /\ histPc' = "built"
  /\ UNCHANGED perplexityValues
  /\ UNCHANGED notHistVars

NextHist == BuildDistribution

SpecHist == InitHist /\ [][NextHist]_vars

----------------------------------------------------------------------------
(* analyzeFiles, lines 116-132: the best text of every id.                 *)
ScoredRecord(id, cell, perplexity) ==
  [id |-> id, text |-> cell, perplexity |-> perplexity]

\* { ...score, source: file.name }
WithSource(rec, name) ==
  [ id |-> rec.id, text |-> rec.text, perplexity |-> rec.perplexity,
    source |-> name ]

AllScores(ps) ==
  Flatten([f \in DOMAIN ps |->
             [j \in DOMAIN ps[f].scores |->
                WithSource(ps[f].scores[j], ps[f].name)]])

MaxByPerplexity(q) ==
  LET nums == {i \in DOMAIN q : q[i].perplexity.k = "num"}
  IN IF nums = {} THEN Undefined
     ELSE q[CHOOSE i \in nums :
              /\ \A j \in nums : AtMost(q[j].perplexity, q[i].perplexity)
              /\ \A j \in nums : j < i => Less(q[j].perplexity, q[i].perplexity)]

LastMinByPerplexity(q) ==
  LET nums == {i \in DOMAIN q : q[i].perplexity.k = "num"}
  IN IF nums = {} THEN Undefined
     ELSE q[CHOOSE i \in nums :
              /\ \A j \in nums : AtMost(q[i].perplexity, q[j].perplexity)
              /\ \A j \in nums : j > i => Less(q[i].perplexity, q[j].perplexity)]

\* _.minBy(q, 'perplexity') (baseExtremum): the first record of the smallest
\* perplexity; a perplexity that is null, undefined or NaN is skipped;
\* undefined when no record is left.
MinByPerplexity(q) ==
  LET nums == {i \in DOMAIN q : q[i].perplexity.k = "num"}
  IN IF nums = {} THEN Undefined
     ELSE q[CHOOSE i \in nums :
              /\ \A j \in nums : AtMost(q[i].perplexity, q[j].perplexity)
              /\ \A j \in nums : j < i => Less(q[i].perplexity, q[j].perplexity)]

BestTexts(ps) ==
  LET allScores == AllScores(ps)
      uniqueIds == Uniq([i \in DOMAIN allScores |-> allScores[i].id])
      bestOf == [u \in DOMAIN uniqueIds |->
                   MinByPerplexity(SelectSeq(allScores,
                                             LAMBDA rec : rec.id = uniqueIds[u]))]
  IN SelectSeq(bestOf, LAMBDA best : best # Undefined)

\* The scored records of the files: an id, a text and the score that
\* calculatePerplexity resolved with, a number or undefined.
ScoredRecords ==
  {ScoredRecord(id, Str(t), p) :
     id \in Ids, t \in {<<"a">>, <<"b">>}, p \in {Num(5), Num(7), Undefined}}

ScoredFile(name, scores) == [name |-> name, scores |-> scores]

\* One file, or two files, with at most MaxScored records together.
InitBest ==
  /\ AnalyzeIdle
  /\ ScoreIdle
  /\ HistIdle
  /\ PageIdle
  /\ ScoringIdle
  /\ \E all \in SeqsUpTo(ScoredRecords, MaxScored) :
       \/ perplexityScores = <<ScoredFile("f1", all)>>
       \/ \E cut \in 0..Len(all) :
            perplexityScores =
              << ScoredFile("f1", SubSeq(all, 1, cut)),
                 ScoredFile("f2", SubSeq(all, cut + 1, Len(all))) >>
  /\ bestTexts = <<>>
  /\ bestPc = "called"

FindBestTexts ==
  /\ bestPc = "called"
  /\ bestTexts' = BestTexts(perplexityScores)
  /\ bestPc' = "built"
  /\ UNCHANGED perplexityScores
  /\ UNCHANGED notBestVars

NextBest == FindBestTexts

SpecBest == InitBest /\ [][NextBest]_vars

----------------------------------------------------------------------------
(* The page: Home (state and what it renders), UploadTab (handlers) and    *)
(* FileList (checkbox and buttons).  A file is reduced to what the         *)
(* handlers read: its id, its validity and whether analyzeFiles throws on  *)
(* it; a message built from a template is the sequence of its parts.       *)

\* What processFile makes of a chosen file: a CSV with the fields id and
\* text, one without the field text, one with an empty id cell (row.id is
\* null), or a file with no content (the promise rejects).  Every CSV has
\* one record.
CsvKinds == {"valid", "missingText", "emptyId", "unreadable"}

\* processFile, lines 174-186: the FileData it resolves with.
FileData(id, csv) ==
  [id |-> id, csv |-> csv, isValid |-> csv \in {"valid", "emptyId"}]

NoError == <<>>

FileIds(fs) == {fs[i].id : i \in DOMAIN fs}

Without(q, i) == [j \in 1..(Len(q) - 1) |-> IF j < i THEN q[j] ELSE q[j + 1]]

\* Home, lines 1117-1132: UploadTab is rendered unless the spinner is shown.
UploadTabRenderedWhileLoading == activeTab = "upload"

UploadTabRendered == ~loading /\ activeTab = "upload"

\* UploadTab, lines 113-121.
FileListRendered == UploadTabRendered /\ files # <<>>

\* handleAnalyzeFiles, line 69.
NothingSelectedNever == FALSE

NothingSelected == Len(selectedFileIds) = 0

\* handleAnalyzeFiles, lines 78-80.
SelectedFilesUnfiltered ==
  SelectSeq(files, LAMBDA file : file.id \in Range(selectedFileIds))

SelectedFilesInTickOrder ==
  SelectSeq([i \in DOMAIN selectedFileIds |->
               files[CHOOSE k \in DOMAIN files :
                       files[k].id = selectedFileIds[i]]],
            LAMBDA file : file.isValid)

SelectedFiles ==
  SelectSeq(files, LAMBDA file :
                     file.id \in Range(selectedFileIds) /\ file.isValid)

\* analyzeFiles as the page sees it: it rejects when row.id.toString()
\* throws (analysisUtils.ts line 136), else resolves with a result, here
\* the files it was given, in their order.
AnalyzeFilesThrows(fs) == \E i \in DOMAIN fs : fs[i].csv = "emptyId"
AnalysisResultOf(fs) == [files |-> fs]

AfterAnalyzeFilesCatchClearsResult(fs, shown) ==
  IF AnalyzeFilesThrows(fs)
  THEN /\ error' = << "Error analyzing files: ",
                      "Cannot read properties of null (reading 'toString')" >>
       /\ loading' = FALSE
       /\ analysisResult' = Null
       /\ UNCHANGED activeTab
  ELSE /\ analysisResult' = AnalysisResultOf(fs)
       /\ activeTab' = "analysis"
       /\ loading' = FALSE
       /\ error' = shown

AfterAnalyzeFilesCatchKeepsLoading(fs, shown) ==
  IF AnalyzeFilesThrows(fs)
  THEN /\ error' = << "Error analyzing files: ",
                      "Cannot read properties of null (reading 'toString')" >>
       /\ UNCHANGED <<loading, analysisResult, activeTab>>
  ELSE /\ analysisResult' = AnalysisResultOf(fs)
       /\ activeTab' = "analysis"
       /\ loading' = FALSE
       /\ error' = shown

\* handleAnalyzeFiles, lines 95-100: what follows the await; shown is the
\* message set before.
AfterAnalyzeFiles(fs, shown) ==
  IF AnalyzeFilesThrows(fs)
  THEN /\ error' = << "Error analyzing files: ",
                      "Cannot read properties of null (reading 'toString')" >>
       /\ loading' = FALSE
       /\ UNCHANGED <<analysisResult, activeTab>>
  ELSE /\ analysisResult' = AnalysisResultOf(fs)
       /\ activeTab' = "analysis"
       /\ loading' = FALSE
       /\ error' = shown

\* handleFileUpload, lines 36-43: a non-empty batch is handed to processFile.
HandleFileUpload(batch) ==
  /\ nextFileId + Len(batch) - 1 <= MaxUploaded
  /\ loading' = TRUE
  /\ error' = NoError
  /\ uploads' = Append(uploads,
                       [i \in DOMAIN batch |->
                          FileData(nextFileId + i - 1, batch[i])])
  /\ nextFileId' = nextFileId + Len(batch)
  /\ UNCHANGED <<files, selectedFileIds, activeTab, analysisResult,
                 useRemoteApi, runs>>
  /\ UNCHANGED notPageVars

ProcessFilesSettleKeepsReadable(u) ==
  /\ IF \E i \in DOMAIN uploads[u] : uploads[u][i].csv = "unreadable"
     THEN /\ error' = <<"Error processing files: ", "Failed to read file">>
          /\ files' = files \o SelectSeq(uploads[u],
                                         LAMBDA file : file.csv # "unreadable")
     ELSE /\ files' = files \o uploads[u]
          /\ UNCHANGED error
  /\ loading' = FALSE
  /\ uploads' = Without(uploads, u)
  /\ UNCHANGED <<selectedFileIds, activeTab, analysisResult, useRemoteApi,
                 runs, nextFileId>>
  /\ UNCHANGED notPageVars

\* handleFileUpload, lines 44-52: Promise.all settles.
ProcessFilesSettle(u) ==
  /\ IF \E i \in DOMAIN uploads[u] : uploads[u][i].csv = "unreadable"
     THEN /\ error' = <<"Error processing files: ", "Failed to read file">>
          /\ UNCHANGED files
     ELSE /\ files' = files \o uploads[u]
          /\ UNCHANGED error
  /\ loading' = FALSE
  /\ uploads' = Without(uploads, u)
  /\ UNCHANGED <<selectedFileIds, activeTab, analysisResult, useRemoteApi,
                 runs, nextFileId>>
  /\ UNCHANGED notPageVars

RemoveFileKeepsSelection(fileId) ==
  /\ files' = SelectSeq(files, LAMBDA file : file.id # fileId)
  /\ UNCHANGED <<selectedFileIds, activeTab, analysisResult, loading, error,
                 useRemoteApi, uploads, runs, nextFileId>>
  /\ UNCHANGED notPageVars

\* removeFile, lines 55-58.
RemoveFile(fileId) ==
  /\ files' = SelectSeq(files, LAMBDA file : file.id # fileId)
  /\ selectedFileIds' = SelectSeq(selectedFileIds, LAMBDA id : id # fileId)
  /\ UNCHANGED <<activeTab, analysisResult, loading, error, useRemoteApi,
                 uploads, runs, nextFileId>>
  /\ UNCHANGED notPageVars

\* toggleFileSelection, lines 60-66.
ToggleFileSelection(fileId) ==
  /\ selectedFileIds' =
       IF fileId \in Range(selectedFileIds)
       THEN SelectSeq(selectedFileIds, LAMBDA id : id # fileId)
       ELSE Append(selectedFileIds, fileId)
  /\ UNCHANGED <<files, activeTab, analysisResult, loading, error,
                 useRemoteApi, uploads, runs, nextFileId>>
  /\ UNCHANGED notPageVars

\* handleAnalyzeFiles, lines 68-102, up to the first await that waits for
\* the network.  With the local strategy no scoring call waits, and the run
\* is over before the next event is handled.
HandleAnalyzeFiles ==
  /\ IF NothingSelected
     THEN /\ error' = <<"Please select at least one file to analyze">>
          /\ UNCHANGED <<loading, analysisResult, activeTab, runs>>
     ELSE IF SelectedFiles = <<>>
     THEN /\ error' = <<"Error analyzing files: ", "No valid files selected">>
          /\ loading' = FALSE
          /\ UNCHANGED <<analysisResult, activeTab, runs>>
     ELSE IF useRemoteApi
     THEN /\ loading' = TRUE
          /\ error' = NoError
          /\ runs' = Append(runs, [ selectedFiles |-> SelectedFiles,
                                    pending |-> Len(SelectedFiles) ])
          /\ UNCHANGED <<analysisResult, activeTab>>
     ELSE /\ AfterAnalyzeFiles(SelectedFiles, NoError)
          /\ UNCHANGED runs
  /\ UNCHANGED <<files, selectedFileIds, useRemoteApi, uploads, nextFileId>>
  /\ UNCHANGED notPageVars

\* A scoring call of a run returns the score of the backend.  After the
\* last call analyzeFiles settles and the handler goes on.
ScoringCallReturns(r) ==
  /\ IF runs[r].pending > 1
     THEN /\ runs' = [runs EXCEPT ![r].pending = @ - 1]
          /\ UNCHANGED <<analysisResult, activeTab, loading, error>>
     ELSE /\ runs' = Without(runs, r)
          /\ AfterAnalyzeFiles(runs[r].selectedFiles, error)
  /\ UNCHANGED <<files, selectedFileIds, useRemoteApi, uploads, nextFileId>>
  /\ UNCHANGED notPageVars

ScoringCallFailsKeepsRemote(r) ==
  /\ IF runs[r].pending > 1
     THEN /\ runs' = [runs EXCEPT ![r].pending = @ - 1]
          /\ error' = <<"Failed to connect to Python API. Using fallback method.">>
          /\ UNCHANGED <<analysisResult, activeTab, loading>>
     ELSE /\ runs' = Without(runs, r)
          /\ AfterAnalyzeFiles(
               runs[r].selectedFiles,
               <<"Failed to connect to Python API. Using fallback method.">>)
  /\ UNCHANGED <<files, selectedFileIds, uploads, nextFileId, useRemoteApi>>
  /\ UNCHANGED notPageVars

\* A scoring call of a run fails: calculatePerplexity calls the hook of
\* lines 89-92 and scores locally.
ScoringCallFails(r) ==
  /\ useRemoteApi' = FALSE
  /\ IF runs[r].pending > 1
     THEN /\ runs' = [runs EXCEPT ![r].pending = @ - 1]
          /\ error' = <<"Failed to connect to Python API. Using fallback method.">>
          /\ UNCHANGED <<analysisResult, activeTab, loading>>
     ELSE /\ runs' = Without(runs, r)
          /\ AfterAnalyzeFiles(
               runs[r].selectedFiles,
               <<"Failed to connect to Python API. Using fallback method.">>)
  /\ UNCHANGED <<files, selectedFileIds, uploads, nextFileId>>
  /\ UNCHANGED notPageVars

\* ApiToggle: the checkbox of the scoring strategy.
ClickApiToggle ==
  /\ UploadTabRendered
  /\ useRemoteApi' = ~useRemoteApi
  /\ UNCHANGED <<files, selectedFileIds, activeTab, analysisResult, loading,
                 error, uploads, runs, nextFileId>>
  /\ UNCHANGED notPageVars

ClickTabNeverDisabled(tab) ==
  /\ activeTab' = tab
  /\ UNCHANGED <<files, selectedFileIds, analysisResult, loading, error,
                 useRemoteApi, uploads, runs, nextFileId>>
  /\ UNCHANGED notPageVars

\* Home, lines 1087-1107: the tab buttons; Analysis is disabled without a
\* result.
ClickTab(tab) ==
  /\ tab = "analysis" => analysisResult # Null
  /\ activeTab' = tab
  /\ UNCHANGED <<files, selectedFileIds, analysisResult, loading, error,
                 useRemoteApi, uploads, runs, nextFileId>>
  /\ UNCHANGED notPageVars

\* Home, line 1111: the Dismiss button of the error alert.
ClickDismiss ==
  /\ error # NoError
  /\ error' = NoError
  /\ UNCHANGED <<files, selectedFileIds, activeTab, analysisResult, loading,
                 useRemoteApi, uploads, runs, nextFileId>>
  /\ UNCHANGED notPageVars

\* The file input of FileUploader.
ChooseFiles(batch) == UploadTabRendered /\ HandleFileUpload(batch)

\* FileList, lines 47-52: the Remove button of a file.
ClickRemove(fileId) == FileListRendered /\ RemoveFile(fileId)

\* FileList, lines 26-33: the checkbox of a file, disabled when !isValid.
ClickCheckbox(fileId) ==
  /\ FileListRendered
  /\ \E i \in DOMAIN files : files[i].id = fileId /\ files[i].isValid
  /\ ToggleFileSelection(fileId)

\* FileList, lines 62-73: the Analyze button, disabled without a selection.
ClickAnalyze ==
  /\ FileListRendered
  /\ selectedFileIds # <<>>
  /\ HandleAnalyzeFiles

Batches == SeqsUpTo(CsvKinds, MaxUploaded) \ {<<>>}

InitPage ==
  /\ AnalyzeIdle
  /\ ScoreIdle
  /\ HistIdle
  /\ BestIdle
  /\ PageIdle
  /\ ScoringIdle

Settle ==
  \/ \E u \in DOMAIN uploads : ProcessFilesSettle(u)
  \/ \E r \in DOMAIN runs : ScoringCallReturns(r)
  \/ \E r \in DOMAIN runs : ScoringCallFails(r)

\* The page as its user drives it.
NextPage ==
  \/ \E batch \in Batches : ChooseFiles(batch)
  \/ \E fileId \in FileIds(files) : ClickRemove(fileId)
  \/ \E fileId \in FileIds(files) : ClickCheckbox(fileId)
  \/ ClickAnalyze
  \/ ClickApiToggle
  \/ \E tab \in {"upload", "analysis"} : ClickTab(tab)
  \/ ClickDismiss
  \/ Settle

SpecPage == InitPage /\ [][NextPage]_vars

\* FileList calls toggleFileSelection, whatever the disabled attribute of
\* the checkbox.
CallToggleFileSelection(fileId) ==
  FileListRendered /\ ToggleFileSelection(fileId)

\* FileList calls onAnalyze, whatever the disabled attribute of the button.
CallOnAnalyze == FileListRendered /\ HandleAnalyzeFiles

\* UploadTab with any FileList: the handlers it hands to FileList are
\* called while FileList is rendered, the disabled attributes put aside.
NextHandlers ==
  \/ \E batch \in Batches : ChooseFiles(batch)
  \/ \E fileId \in FileIds(files) : ClickRemove(fileId)
  \/ \E fileId \in FileIds(files) : CallToggleFileSelection(fileId)
  \/ CallOnAnalyze
  \/ ClickApiToggle
  \/ \E tab \in {"upload", "analysis"} : ClickTab(tab)
  \/ ClickDismiss
  \/ Settle

SpecHandlers == InitPage /\ [][NextHandlers]_vars

\* handleAnalyzeFiles, line 86: the await of analyzeFiles goes on once the
\* scoring calls of the run have settled; every call that is awaited
\* settles in the end.
ScoringSettles ==
  \E r \in DOMAIN runs : ScoringCallReturns(r) \/ ScoringCallFails(r)

FairSpecHandlers == SpecHandlers /\ WF_vars(ScoringSettles)

----------------------------------------------------------------------------
(* analyzeFiles with its scoring, lines 12-150: one calculatePerplexity    *)
(* call for every record of every file, all started at once (lines 74-82), *)
(* settling in any order; Promise.all resolves when all have settled.      *)
PendingCall == [state |-> "pending", by |-> "none", perplexity |-> Undefined]
SettledCall(by, p) == [state |-> "settled", by |-> by, perplexity |-> p]

\* Line 80: row.text?.toString() || ''
TextOf(row) == CoerceText(row.text)

\* The scores calculatePerplexity(t, false) may resolve with.
LocalScores(t) == {LocalScore(t, r) : r \in 0..(RandSteps - 1)}

RECURSIVE SumValues(_)
SumValues(q) == IF q = <<>> THEN Num(0) ELSE Add(q[1], SumValues(Tail(q)))

\* _.mean of an array of scores: NaN for the empty array and when an entry
\* is not a number.
MeanValue(q) ==
  IF Len(q) = 0 \/ \E i \in DOMAIN q : q[i].k # "num" THEN NaN
  ELSE LET sum == SumValues(q) IN Frac(sum.n, sum.d * Len(q))

\* Lines 76-86: scores, in the order of file.data whatever the order in
\* which the calls settled.
ScoresOf(file, cs) ==
  [j \in DOMAIN file.data |->
     ScoredRecord(file.data[j].id, Str(TextOf(file.data[j])),
                  cs[j].perplexity)]

\* Lines 73-114.
PerplexityScores(fs, css) ==
  [f \in DOMAIN fs |->
     LET scores == ScoresOf(fs[f], css[f])
         values == [j \in DOMAIN scores |-> scores[j].perplexity]
     IN [ name |-> fs[f].name,
          avgPerplexity |-> MeanValue(values),
          scores |-> scores,
          distribution |-> Distribution(values) ]]

\* Lines 143-150: the AnalysisResult.
FullAnalysisOf(fs, css) ==
  LET perplexityScoresOfFiles == PerplexityScores(fs, css)
  IN
  [ fileStats |-> FileStats(fs),
    comparison |-> ComparisonOf(fs),
    perplexityScores |-> perplexityScoresOfFiles,
    bestTexts |-> BestTexts(perplexityScoresOfFiles),
    commonIds |-> CommonIds(fs),
    totalUniqueIds |-> TotalUniqueIds(fs) ]

\* The records of the files scored: an id and a text of one or two words.
\* Every record has an id, so line 136 does not throw.
ScoredRows ==
  { Row(Num(1), Str(<<"a">>)), Row(Num(1), Str(<<"a", " ", "a">>)),
    Row(Num(2), Str(<<"a">>)) }

\* What the Python service answers in a call of analyzeFiles.
ScoringOutcomes ==
  {py \in PythonOutcomes :
     py.kind = "error" \/ (py.kind = "json" /\ py.perplexity = Num(7))}

\* One file, or two files holding the two halves of the records (the first
\* file gets the odd one), with at most MaxCalls records together.
InitScoring ==
  /\ ScoreIdle
  /\ HistIdle
  /\ BestIdle
  /\ PageIdle
  /\ \E all \in SeqsUpTo(ScoredRows, MaxCalls) :
       \/ selectedFiles = <<File("f1", all)>>
       \/ LET cut == (Len(all) + 1) \div 2
          IN selectedFiles = << File("f1", SubSeq(all, 1, cut)),
                                File("f2", SubSeq(all, cut + 1, Len(all))) >>
  /\ outcome = "pending"
  /\ result = NoResult
  /\ strategy \in BOOLEAN
  /\ calls = [f \in DOMAIN selectedFiles |->
                [j \in DOMAIN selectedFiles[f].data |-> PendingCall]]
  /\ onApiErrorCalls = 0

IsPending(f, j) == outcome = "pending" /\ calls[f][j].state = "pending"

\* calculatePerplexity(text, false): the local strategy.
CallScoresLocally(f, j) ==
  /\ IsPending(f, j)
  /\ ~strategy
  /\ \E p \in LocalScores(TextOf(selectedFiles[f].data[j])) :
       calls' = [calls EXCEPT ![f][j] = SettledCall("local", p)]
  /\ UNCHANGED <<selectedFiles, outcome, result, strategy, onApiErrorCalls>>
  /\ UNCHANGED notScoringVars

\* calculatePerplexity(text, true, onApiError): the route answers 2xx.
CallReturnsRemote(f, j) ==
  /\ IsPending(f, j)
  /\ strategy
  /\ \E py \in ScoringOutcomes :
       LET resp == RoutePost(TextOf(selectedFiles[f].data[j]), py)
       IN /\ ~ResponseThrows(resp)
          /\ calls' = [calls EXCEPT ![f][j] = SettledCall("remote", resp.perplexity)]
  /\ UNCHANGED <<selectedFiles, outcome, result, strategy, onApiErrorCalls>>
  /\ UNCHANGED notScoringVars

\* calculatePerplexity(text, true, onApiError): fetch rejects or the route
\* answers non-2xx; the catch block calls the hook and scores locally.
\* Were the call to reject, Promise.all and analyzeFiles would reject.
CallFallsBack(f, j) ==
  /\ IsPending(f, j)
  /\ strategy
  /\ \E resp \in {RoutePost(TextOf(selectedFiles[f].data[j]), py) :
                     py \in ScoringOutcomes} \cup {NetworkError} :
       ResponseThrows(resp)
  /\ LET caught == Catch(Frame(TRUE, TRUE))
     IN /\ onApiErrorCalls' = onApiErrorCalls + (IF caught.hook THEN 1 ELSE 0)
        /\ IF caught.pc = "called"
           THEN /\ \E p \in LocalScores(TextOf(selectedFiles[f].data[j])) :
                     calls' = [calls EXCEPT ![f][j] = SettledCall("local", p)]
                /\ UNCHANGED outcome
           ELSE /\ outcome' = "rejected"
                /\ UNCHANGED calls
  /\ UNCHANGED <<selectedFiles, result, strategy>>
  /\ UNCHANGED notScoringVars

\* Lines 74-150 after the last call has settled.
AnalyzeFilesReturns ==
  /\ outcome = "pending"
  /\ \A f \in DOMAIN calls : \A j \in DOMAIN calls[f] :
       calls[f][j].state = "settled"
  /\ outcome' = "resolved"
  /\ result' = FullAnalysisOf(selectedFiles, calls)
  /\ UNCHANGED <<selectedFiles, strategy, calls, onApiErrorCalls>>
  /\ UNCHANGED notScoringVars

NextScoring ==
  \/ \E f \in DOMAIN calls : \E j \in DOMAIN calls[f] : CallScoresLocally(f, j)
  \/ \E f \in DOMAIN calls : \E j \in DOMAIN calls[f] : CallReturnsRemote(f, j)
  \/ \E f \in DOMAIN calls : \E j \in DOMAIN calls[f] : CallFallsBack(f, j)
  \/ AnalyzeFilesReturns

SpecScoring == InitScoring /\ [][NextScoring]_vars

\* Records whose ids are of both types the id field has (types.ts:
\* id: string | number): the number 1, the string "1" and the number 2.
MixedIdRows ==
  { Row(Num(1), Str(<<"a">>)), Row(Str(<<"1">>), Str(<<"a">>)),
    Row(Num(2), Str(<<"a">>)) }

\* analyzeFiles on one file, or on two files holding the two halves of the
\* records, with ids of both types.
InitMixedIds ==
  /\ ScoreIdle
  /\ HistIdle
  /\ BestIdle
  /\ PageIdle
  /\ \E all \in SeqsUpTo(MixedIdRows, MaxCalls) :
       \/ selectedFiles = <<File("f1", all)>>
       \/ LET cut == (Len(all) + 1) \div 2
          IN selectedFiles = << File("f1", SubSeq(all, 1, cut)),
                                File("f2", SubSeq(all, cut + 1, Len(all))) >>
  /\ outcome = "pending"
  /\ result = NoResult
  /\ strategy \in BOOLEAN
  /\ calls = [f \in DOMAIN selectedFiles |->
                [j \in DOMAIN selectedFiles[f].data |-> PendingCall]]
  /\ onApiErrorCalls = 0

SpecMixedIds == InitMixedIds /\ [][NextScoring]_vars

----------------------------------------------------------------------------
(* Vocabulary of the properties.                                           *)
IsZero(x) == x.k = "num" /\ x.n = 0

\* The positions at which a whitespace-separated token of s starts.
TokenStarts(s) ==
  {i \in 1..Len(s) : s[i] # " " /\ (i = 1 \/ s[i - 1] = " ")}

\* The token of s that starts at position i.
TokenAt(s, i) ==
  SubSeq(s, i, CHOOSE e \in i..Len(s) :
                 /\ \A x \in i..e : s[x] # " "
                 /\ (e = Len(s) \/ s[e + 1] = " "))

\* The multiset of the whitespace-separated tokens of s.
TokenBag(s) ==
  [t \in {TokenAt(s, i) : i \in TokenStarts(s)} |->
     Cardinality({i \in TokenStarts(s) : TokenAt(s, i) = t})]

TokenCount(s) == Cardinality(TokenStarts(s))

IdSet(file) == {file.data[j].id : j \in DOMAIN file.data}

FirstIndex(data, id) ==
  CHOOSE i \in DOMAIN data :
    data[i].id = id /\ \A j \in DOMAIN data : data[j].id = id => i <= j

Resolved == outcome = "resolved"

----------------------------------------------------------------------------
\* C1: the FileStats entry of every selected dataset has rowCount equal to
\* the number of its records, duplicated ids and missing texts included.
C1_RowCount ==
  Resolved =>
    /\ Len(result.fileStats) = Len(selectedFiles)
    /\ \A i \in DOMAIN selectedFiles :
         result.fileStats[i].rowCount = Len(selectedFiles[i].data)

C1_Witness ==
  /\ Resolved
  /\ \E i \in DOMAIN selectedFiles :
       /\ Len(selectedFiles[i].data) = 2
       /\ selectedFiles[i].data[1].id = selectedFiles[i].data[2].id
       /\ selectedFiles[i].data[2].text = Null
       /\ result.fileStats[i].rowCount = 2

\* C2: for a dataset with zero records avgWordCount, minWordCount and
\* maxWordCount are all the number 0.
C2_EmptyStatsZero ==
  Resolved =>
    \A i \in DOMAIN selectedFiles :
      Len(selectedFiles[i].data) = 0 =>
        /\ IsZero(result.fileStats[i].avgWordCount)
        /\ IsZero(result.fileStats[i].minWordCount)
        /\ IsZero(result.fileStats[i].maxWordCount)

\* C3: the word count of a record is the number of whitespace-separated
\* tokens of its text (0 for an empty or absent text), so that the maximum
\* and minimum word counts of a dataset are those of its token counts.
C3_WordCountIsTokenCount ==
  Resolved =>
    \A i \in DOMAIN selectedFiles :
      LET data == selectedFiles[i].data
          counts == {TokenCount(CoerceText(data[j].text)) : j \in DOMAIN data}
      IN data # <<>> =>
           /\ result.fileStats[i].maxWordCount.k = "num"
           /\ result.fileStats[i].maxWordCount.n \in counts
           /\ \A c \in counts : c <= result.fileStats[i].maxWordCount.n
           /\ result.fileStats[i].minWordCount.n \in counts
           /\ \A c \in counts : result.fileStats[i].minWordCount.n <= c

\* C4: a comparison row whose two texts are the same string has
\* textsDifferent = false and wordsMatch = true, and in every row
\* textsDifferent = false implies wordsMatch = true.
C4_EqualTextsMatch ==
  Resolved =>
    \A i \in DOMAIN result.comparison.data :
      LET r == result.comparison.data[i]
      IN /\ r.file1Text = r.file2Text => ~r.textsDifferent /\ r.wordsMatch
         /\ ~r.textsDifferent => r.wordsMatch

C4_Witness ==
  /\ Resolved
  /\ \E i \in DOMAIN result.comparison.data :
       LET r == result.comparison.data[i]
       IN /\ r.file1Text = r.file2Text
          /\ Len(Split(r.file1Text)) > 1
          /\ ~r.textsDifferent
          /\ r.wordsMatch

\* C5: wordsMatch is true exactly when the two texts have the same multiset
\* of whitespace-separated tokens.
C5_WordsMatchIffSameTokenBag ==
  Resolved =>
    \A i \in DOMAIN result.comparison.data :
      LET r == result.comparison.data[i]
      IN r.wordsMatch <=> TokenBag(r.file1Text) = TokenBag(r.file2Text)

\* C6: with two or more datasets selected the comparison has exactly one row
\* for every id that occurs in both the first and the second dataset and no
\* other row, in the order of the first occurrence of the ids in the first
\* dataset; with no shared id the rows are empty and both counters are 0.
C6_RowsAreCommonIds ==
  Resolved /\ Len(selectedFiles) >= 2 =>
    LET rows == result.comparison.data
        file1 == selectedFiles[1]
        common == IdSet(file1) \cap IdSet(selectedFiles[2])
    IN /\ {rows[i].id : i \in DOMAIN rows} = common
       /\ Len(rows) = Cardinality(common)
       /\ \A i, j \in DOMAIN rows :
            i < j => FirstIndex(file1.data, rows[i].id)
                       < FirstIndex(file1.data, rows[j].id)
       /\ common = {} =>
            /\ rows = <<>>
            /\ result.comparison.differentTexts = 0
            /\ result.comparison.sameWords = 0

C6_Witness ==
  /\ Resolved
  /\ Len(selectedFiles) = 2
  /\ RowIds(selectedFiles[1]) = <<Num(2), Num(1)>>
  /\ RowIds(selectedFiles[2]) = <<Num(1), Num(1)>>
  /\ Len(result.comparison.data) = 1
  /\ result.comparison.data[1].id = Num(1)

\* C7: the comparison is null when fewer than two datasets are selected;
\* otherwise it is the comparison of the first and the second dataset, and
\* no third dataset, added, removed or changed, changes it.
C7_OnlyFirstTwoCompared ==
  Resolved =>
    /\ Len(selectedFiles) < 2 => result.comparison.isNull
    /\ Len(selectedFiles) >= 2 =>
         /\ ~result.comparison.isNull
         /\ result.comparison.file1Name = selectedFiles[1].name
         /\ result.comparison.file2Name = selectedFiles[2].name
         /\ {result.comparison.data[i].id : i \in DOMAIN result.comparison.data}
              = IdSet(selectedFiles[1]) \cap IdSet(selectedFiles[2])
         /\ ComparisonOf(SubSeq(selectedFiles, 1, 2)) = result.comparison
         /\ \A d \in PlainData :
              ComparisonOf(<<selectedFiles[1], selectedFiles[2], File("f3", d)>>)
                = result.comparison

C7_Witness ==
  /\ Resolved
  /\ Len(selectedFiles) = 3
  /\ IdSet(selectedFiles[3]) \cap IdSet(selectedFiles[1]) = {}
  /\ Len(result.comparison.data) = 2

\* C8: commonIds is the number of distinct ids that occur in every selected
\* dataset, totalUniqueIds the number of distinct ids that occur in at least
\* one; commonIds <= totalUniqueIds, with equality for a single dataset.
C8_IdCounts ==
  Resolved =>
    LET sets == {IdSet(selectedFiles[i]) : i \in DOMAIN selectedFiles}
        any == UNION sets
    IN /\ result.commonIds
            = Cardinality({id \in any : \A S \in sets : id \in S})
       /\ result.totalUniqueIds = Cardinality(any)
       /\ result.commonIds <= result.totalUniqueIds
       /\ Len(selectedFiles) = 1 => result.commonIds = result.totalUniqueIds

C8_Witness ==
  /\ Resolved
  /\ Len(selectedFiles) = 3
  /\ IdSet(selectedFiles[1]) \cap IdSet(selectedFiles[2]) = {Num(1), Num(2)}
  /\ IdSet(selectedFiles[3]) = {Num(2)}
  /\ result.commonIds = 1
  /\ result.totalUniqueIds = 2

FirstFrame == stack[1]

\* The backend call failed: a network error or a non-2xx response.
BackendFailed ==
  \/ response.kind = "networkError"
  \/ response.kind = "response" /\ response.status \notin 200..299

ExpectedHookCalls == IF FirstFrame.hasHook THEN 1 ELSE 0

\* C9: calculatePerplexity never rejects; a remote call whose backend call
\* failed has invoked the onApiError hook once and resolves with a score of
\* the local strategy for the same text.
C9_FailureFallsBackToLocal ==
  /\ pc \in {"called", "fetching", "responded", "returned"}
  /\ pc = "returned" /\ FirstFrame.useRemoteApi /\ BackendFailed =>
       /\ hookCalls = ExpectedHookCalls
       /\ scoredBy = "local"
       /\ \E r \in 0..(RandSteps - 1) : score = LocalScore(text, r)

C9_Witness ==
  /\ pc = "returned"
  /\ FirstFrame.useRemoteApi
  /\ FirstFrame.hasHook
  /\ response.kind = "networkError"
  /\ hookCalls = 1
  /\ scoredBy = "local"
  /\ score.k = "num"
  /\ score.n > 5 * score.d

\* C10: a response that is not 2xx or whose body has no numeric score is
\* treated as a failure (the hook fires, the score is a local one), so the
\* score a remote call resolves with is always a number.
C10_MalformedBodyIsFailure ==
  pc = "returned" /\ FirstFrame.useRemoteApi =>
    /\ score.k = "num"
    /\ BackendFailed \/ response.perplexity.k # "num" =>
         /\ hookCalls = ExpectedHookCalls
         /\ scoredBy = "local"

\* C11: a score of the local strategy is a finite number s with
\* 5 <= s < 30 for every text; the empty text makes no division by zero
\* (split gives one empty word) and scores inside that interval too.
C11_LocalScoreInRange ==
  pc = "returned" /\ scoredBy = "local" =>
    /\ score.k = "num"
    /\ score.d > 0
    /\ 5 * score.d <= score.n
    /\ score.n < 30 * score.d

C11_Witness ==
  /\ pc = "returned"
  /\ scoredBy = "local"
  /\ text = <<>>
  /\ score = Frac(5 * RandSteps, RandSteps)

Built == histPc = "built"

\* The number of buckets that count the score p.
BucketsCounting(p) ==
  Cardinality({b \in DOMAIN distribution :
                 InBucket(p, distribution[b].bucket,
                          BucketSize(perplexityValues))})

\* C12: the histogram has exactly 10 buckets of the equal width
\* (ceil(max) - floor(min)) / 10, the first starting at floor(min); for an
\* empty sequence of scores the range is [0, 30].
C12_TenEqualBuckets ==
  Built =>
    LET lo == IF perplexityValues = <<>> THEN 0
              ELSE Floor(MinValue(perplexityValues))
        hi == IF perplexityValues = <<>> THEN 30
              ELSE Ceil(MaxValue(perplexityValues))
    IN /\ Len(distribution) = 10
       /\ \A b \in DOMAIN distribution :
            distribution[b].bucket.n * 10
              = (10 * lo + (b - 1) * (hi - lo)) * distribution[b].bucket.d

\* C13: for a non-empty sequence of scores every score is counted in
\* exactly one bucket, so the counts sum to the number of scores; this
\* holds for the maximum score as well, also when it equals ceil(max) and
\* when all scores are the same integer.
C13_EachScoreCountedOnce ==
  Built /\ perplexityValues # <<>> =>
    /\ SumSeq([b \in DOMAIN distribution |-> distribution[b].count])
         = Len(perplexityValues)
    /\ \A i \in DOMAIN perplexityValues :
         BucketsCounting(perplexityValues[i]) = 1

BestBuilt == bestPc = "built"

\* The scored records of all files, each tagged with the name of its file.
TaggedRecords ==
  UNION {{[ id |-> perplexityScores[f].scores[j].id,
            text |-> perplexityScores[f].scores[j].text,
            perplexity |-> perplexityScores[f].scores[j].perplexity,
            source |-> perplexityScores[f].name ] :
            j \in DOMAIN perplexityScores[f].scores} :
           f \in DOMAIN perplexityScores}

ScoredIds == {rec.id : rec \in TaggedRecords}

BestOfId(best, id) == {best[i] : i \in {x \in DOMAIN best : best[x].id = id}}

Reverse(q) == [i \in 1..Len(q) |-> q[Len(q) + 1 - i]]

\* C14: bestTexts has exactly one entry for every distinct id of the scored
\* records of all files, and every entry is one of the scored records,
\* tagged with the name of its file.
C14_OneBestPerId ==
  BestBuilt =>
    /\ \A id \in ScoredIds :
         Cardinality({i \in DOMAIN bestTexts : bestTexts[i].id = id}) = 1
    /\ \A i \in DOMAIN bestTexts : bestTexts[i] \in TaggedRecords

C17_NoSelectionNoRun ==
  [][selectedFileIds = <<>> /\ HandleAnalyzeFiles =>
       /\ error' = <<"Please select at least one file to analyze">>
       /\ UNCHANGED <<loading, analysisResult, activeTab, runs, files,
                      selectedFileIds, useRemoteApi, uploads>>]_vars

C17_Witness ==
  /\ error = <<"Please select at least one file to analyze">>
  /\ selectedFileIds = <<>>
  /\ files # <<>>
  /\ ~loading
  /\ activeTab = "upload"
  /\ analysisResult = Null
  /\ runs = <<>>

\* The files analyzeFiles has been called with: those of the runs in
\* flight and those of the result shown.
PassedToAnalyzeFiles ==
  UNION {Range(runs[r].selectedFiles) : r \in DOMAIN runs}
    \cup (IF analysisResult = Null THEN {} ELSE Range(analysisResult.files))

OnlyInvalidSelected ==
  /\ selectedFileIds # <<>>
  /\ \A i \in DOMAIN files :
       files[i].id \in Range(selectedFileIds) => ~files[i].isValid

\* C19: a file with isValid = false is never passed to analyzeFiles,
\* whatever uploads, selections and removals came before; when every
\* selected file is invalid the run ends with the error of the message
\* 'No valid files selected', and no run starts and no result is set.
C19_InvalidNeverAnalyzed ==
  /\ [](\A file \in PassedToAnalyzeFiles : file.isValid)
  /\ [][OnlyInvalidSelected /\ HandleAnalyzeFiles =>
          /\ error' = <<"Error analyzing files: ", "No valid files selected">>
          /\ ~loading'
          /\ UNCHANGED <<analysisResult, activeTab, runs>>]_vars

C19_Witness ==
  /\ error = <<"Error analyzing files: ", "No valid files selected">>
  /\ OnlyInvalidSelected
  /\ \E i \in DOMAIN files : files[i].id \in Range(selectedFileIds)
  /\ analysisResult = Null
  /\ runs = <<>>

\* The records scored, as <<file, record>> positions.
Records ==
  UNION {{<<f, j>> : j \in DOMAIN selectedFiles[f].data} :
           f \in DOMAIN selectedFiles}

\* Every scoring call of a run with the remote strategy has failed.
EveryCallFailed ==
  /\ strategy
  /\ \A rec \in Records : calls[rec[1]][rec[2]].by = "local"

\* C18: with the remote strategy and a backend that fails on every call
\* analyzeFiles does not reject and resolves once all calls have settled;
\* every record of every file then has one score of the local strategy
\* for its own text, in the order of the records; a call that is pending
\* can fail over to the local strategy whatever the other calls did.
C18_FallbackScoresEveryRecord ==
  /\ outcome \in {"pending", "resolved"}
  /\ \A rec \in Records :
       strategy /\ IsPending(rec[1], rec[2]) =>
         ENABLED CallFallsBack(rec[1], rec[2])
  /\ Resolved /\ EveryCallFailed =>
       /\ onApiErrorCalls = Cardinality(Records)
       /\ Len(result.perplexityScores) = Len(selectedFiles)
       /\ \A f \in DOMAIN selectedFiles :
            Len(result.perplexityScores[f].scores) = Len(selectedFiles[f].data)
       /\ \A rec \in Records :
            LET row == selectedFiles[rec[1]].data[rec[2]]
                scored == result.perplexityScores[rec[1]].scores[rec[2]]
            IN /\ scored.id = row.id
               /\ scored.text = row.text
               /\ scored.perplexity = calls[rec[1]][rec[2]].perplexity
               /\ \E r \in 0..(RandSteps - 1) :
                    scored.perplexity = LocalScore(row.text.s, r)

C18_Witness ==
  /\ Resolved
  /\ EveryCallFailed
  /\ onApiErrorCalls = 3
  /\ Len(selectedFiles) = 2
  /\ selectedFiles[1].data
       = <<Row(Num(1), Str(<<"a", " ", "a">>)), Row(Num(1), Str(<<"a">>))>>
  /\ selectedFiles[2].data = <<Row(Num(2), Str(<<"a">>))>>
  /\ result.perplexityScores[1].scores[1].perplexity.n
       > 5 * result.perplexityScores[1].scores[1].perplexity.d
  /\ result.perplexityScores[1].scores[2].perplexity.n
       = 5 * result.perplexityScores[1].scores[2].perplexity.d

\* C20: when a dataset has several records with the same id, the
\* comparison row of the id carries the text of the first such record of
\* each of the two datasets; every record, duplicates included, is counted
\* in rowCount and in the word-count statistics and is scored.
C20_FirstDuplicateCompared ==
  Resolved /\ Records # {} =>
    /\ Len(selectedFiles) >= 2 =>
         \A k \in DOMAIN result.comparison.data :
           LET row == result.comparison.data[k]
               data1 == selectedFiles[1].data
               data2 == selectedFiles[2].data
           IN /\ row.file1Text = data1[FirstIndex(data1, row.id)].text.s
              /\ row.file2Text = data2[FirstIndex(data2, row.id)].text.s
    /\ \A f \in DOMAIN selectedFiles :
         LET data == selectedFiles[f].data
             words == [j \in DOMAIN data |-> TokenCount(data[j].text.s)]
             stats == result.fileStats[f]
         IN /\ stats.rowCount = Len(data)
            /\ data # <<>> =>
                 /\ \E j \in DOMAIN data : stats.maxWordCount = Num(words[j])
                 /\ \A j \in DOMAIN data :
                      /\ AtMost(Num(words[j]), stats.maxWordCount)
                      /\ AtMost(stats.minWordCount, Num(words[j]))
                 /\ 2 * stats.avgWordCount.n * Len(data)
                      - 2 * stats.avgWordCount.d * SumSeq(words)
                        \in -(stats.avgWordCount.d * Len(data))
                              ..(stats.avgWordCount.d * Len(data))
            /\ Len(result.perplexityScores[f].scores) = Len(data)
            /\ \A j \in DOMAIN data :
                 /\ result.perplexityScores[f].scores[j].id = data[j].id
                 /\ result.perplexityScores[f].scores[j].text = data[j].text
                 /\ result.perplexityScores[f].scores[j].perplexity.k = "num"

C20_Witness ==
  /\ Resolved
  /\ Len(selectedFiles) = 2
  /\ selectedFiles[1].data
       = <<Row(Num(1), Str(<<"a">>)), Row(Num(1), Str(<<"a", " ", "a">>))>>
  /\ selectedFiles[2].data = <<Row(Num(1), Str(<<"a", " ", "a">>))>>
  /\ Len(result.comparison.data) = 1
  /\ result.comparison.data[1].file1Text = <<"a">>
  /\ result.fileStats[1].rowCount = 2
  /\ result.fileStats[1].maxWordCount = Num(2)
  /\ Len(result.perplexityScores[1].scores) = 2

\* The position at which an id first appears in a sequence of records.
FirstPosOfId(q, id) ==
  CHOOSE k \in DOMAIN q :
    q[k].id = id /\ \A m \in DOMAIN q : q[m].id = id => k <= m

C22_AtMostOneFallback ==
  /\ fetches <= 1
  /\ Len(stack) <= 2
  /\ \A d \in DOMAIN stack :
       d > 1 => ~stack[d].useRemoteApi /\ ~stack[d].hasHook
  /\ Len(stack) = 2 => fetches = 1 /\ ResponseThrows(response)
  /\ ~FirstFrame.useRemoteApi => fetches = 0 /\ Len(stack) = 1
  /\ pc # "returned" => ENABLED NextScore
  /\ hookCalls = (IF Len(stack) = 2 /\ FirstFrame.hasHook THEN 1 ELSE 0)
  /\ pc = "returned" =>
       /\ scoredBy = "remote" => hookCalls = 0 /\ Len(stack) = 1 /\ fetches = 1
       /\ scoredBy = "local" /\ FirstFrame.useRemoteApi =>
            Len(stack) = 2 /\ hookCalls = ExpectedHookCalls

C22_Witness ==
  /\ pc = "returned"
  /\ Len(stack) = 2
  /\ FirstFrame.useRemoteApi
  /\ FirstFrame.hasHook
  /\ fetches = 1
  /\ hookCalls = 1
  /\ scoredBy = "local"
  /\ response.kind = "response"
  /\ response.status = 500

\* C23: a call of handleAnalyzeFiles with a selection leaves loading true
\* exactly when its run awaits scoring calls (a run without such a wait is
\* over, result or throw, before the next event, with loading false);
\* loading is true as long as a run is in flight; and when every scoring
\* call settles the run ends, with a result or with a throw, and loading
\* is false.
C23_LoadingEndsWithRun ==
  /\ [][~NothingSelected /\ HandleAnalyzeFiles =>
          (loading' <=> runs' # <<>>)]_vars
  /\ [](runs # <<>> => loading)
  /\ (runs # <<>>) ~> (runs = <<>> /\ ~loading)

C23_Witness ==
  /\ Len(runs) = 1
  /\ loading
  /\ runs[1].pending = 1
  /\ AnalyzeFilesThrows(runs[1].selectedFiles)

\* C24: whenever the Analysis tab is the active one there is an analysis
\* result, and a result that is there is never set back to null.
C24_AnalysisTabHasResult ==
  /\ [](activeTab = "analysis" => analysisResult # Null)
  /\ [][analysisResult # Null => analysisResult' # Null]_vars

\* The Analysis tab is entered through its button: a run stored a result,
\* the user went back to the Upload tab and removed the files.
C24_Witness ==
  /\ activeTab = "analysis"
  /\ analysisResult # Null
  /\ ~loading
  /\ files = <<>>
  /\ selectedFileIds = <<>>

\* The position of a value in a sequence that holds it once.
PosOf(q, x) == CHOOSE i \in DOMAIN q : q[i] = x

\* C25: every id of selectedFileIds is the id of a file of the list and is
\* there once; removeFile(f) takes the file f out of the list and its id
\* out of the selection and leaves the other files and the other selected
\* ids as they are, in their order.
C25_SelectionWithinFiles ==
  /\ [](\A i \in DOMAIN selectedFileIds :
          /\ selectedFileIds[i] \in FileIds(files)
          /\ \A j \in DOMAIN selectedFileIds :
               selectedFileIds[i] = selectedFileIds[j] => i = j)
  /\ [][\A fileId \in FileIds(files) :
          RemoveFile(fileId) =>
            /\ \E i \in DOMAIN files :
                 files[i].id = fileId /\ files' = Without(files, i)
            /\ selectedFileIds' =
                 IF fileId \in Range(selectedFileIds)
                 THEN Without(selectedFileIds, PosOf(selectedFileIds, fileId))
                 ELSE selectedFileIds
            /\ fileId \notin FileIds(files')
            /\ fileId \notin Range(selectedFileIds')]_vars

\* The first of two analysed files has been removed; the second is still
\* in the list and selected.
C25_Witness ==
  /\ analysisResult
       = AnalysisResultOf(<<FileData(1, "valid"), FileData(2, "valid")>>)
  /\ files = <<FileData(2, "valid")>>
  /\ selectedFileIds = <<2>>

\* A step in which a run of handleAnalyzeFiles fails: no valid file is
\* selected, or analyzeFiles throws, at once or after its last scoring call.
RunFails ==
  \/ /\ HandleAnalyzeFiles
     /\ ~NothingSelected
     /\ \/ SelectedFiles = <<>>
        \/ ~useRemoteApi /\ AnalyzeFilesThrows(SelectedFiles)
  \/ \E r \in DOMAIN runs :
       /\ ScoringCallReturns(r) \/ ScoringCallFails(r)
       /\ runs[r].pending = 1
       /\ AnalyzeFilesThrows(runs[r].selectedFiles)

\* C26: the step in which a run fails sets an `Error analyzing files`
\* message and loading false and leaves analysisResult and activeTab as
\* they are; analysisResult does not change either while the run is in
\* flight, so the result of an earlier run is still the stored one.
C26_FailedRunKeepsResult ==
  /\ [][RunFails =>
          /\ Len(error') = 2
          /\ error'[1] = "Error analyzing files: "
          /\ ~loading'
          /\ UNCHANGED <<analysisResult, activeTab>>]_vars
  /\ [][runs # <<>> /\ runs' # <<>> => UNCHANGED analysisResult]_vars

\* A run with the remote strategy has thrown after an earlier run had
\* stored the result of the first file.
C26_Witness ==
  /\ analysisResult = AnalysisResultOf(<<FileData(1, "valid")>>)
  /\ error = << "Error analyzing files: ",
                "Cannot read properties of null (reading 'toString')" >>
  /\ files = <<FileData(1, "valid"), FileData(2, "emptyId")>>
  /\ activeTab = "upload"
  /\ ~loading

\* C27: when processFile failed for a file of a batch, the settling of the
\* batch adds none of its files, leaves the files and the selection as they
\* are, sets an `Error processing files` message and loading false; when
\* it failed for none, the files of the batch, the invalid ones too, come
\* after the files already there, in the order of the batch, and loading is
\* false.
C27_UploadBatchAllOrNothing ==
  [][\A u \in DOMAIN uploads :
       ProcessFilesSettle(u) =>
         /\ ~loading'
         /\ UNCHANGED selectedFileIds
         /\ IF \E i \in DOMAIN uploads[u] : uploads[u][i].csv = "unreadable"
            THEN /\ UNCHANGED files
                 /\ Len(error') = 2
                 /\ error'[1] = "Error processing files: "
            ELSE /\ Len(files') = Len(files) + Len(uploads[u])
                 /\ \A i \in DOMAIN files : files'[i] = files[i]
                 /\ \A i \in DOMAIN uploads[u] :
                      files'[Len(files) + i] = uploads[u][i]]_vars

\* Two files were chosen, the batch has settled with an error and the list
\* is empty.
C27_Witness ==
  /\ nextFileId = 3
  /\ uploads = <<>>
  /\ files = <<>>
  /\ selectedFileIds = <<>>
  /\ analysisResult = Null
  /\ error = <<"Error processing files: ", "Failed to read file">>
  /\ ~loading

FallbackMessage == <<"Failed to connect to Python API. Using fallback method.">>

\* The step in which run r settles after one of its scoring calls failed,
\* in that step or before: the remote option is on when a run with scoring
\* calls starts and only the hook turns it off while the run is in flight.
SettlesAfterFailure(r) ==
  /\ runs[r].pending = 1
  /\ \/ ScoringCallFails(r)
     \/ ScoringCallReturns(r) /\ ~useRemoteApi

\* C28 as stated: when a run in which a scoring call failed settles,
\* useRemoteApi is false, the fallback message is the error shown, the
\* result is stored and the Analysis tab is the active one; a run started
\* with the remote option off makes no remote call.
C28_FallbackShownAndRunSucceeds ==
  /\ [][\A r \in DOMAIN runs :
          SettlesAfterFailure(r) =>
            /\ ~useRemoteApi'
            /\ error' = FallbackMessage
            /\ analysisResult' = AnalysisResultOf(runs[r].selectedFiles)
            /\ activeTab' = "analysis"]_vars
  /\ [][~useRemoteApi /\ HandleAnalyzeFiles => UNCHANGED runs]_vars

\* C28, amended: a failing scoring call turns useRemoteApi off and sets the
\* fallback message; useRemoteApi stays off until the user ticks the remote
\* option again, and a run started meanwhile makes no remote call.  When
\* the run settles and analyzeFiles resolved, the result is stored, the
\* Analysis tab is the active one and the error shown is the fallback
\* message unless the user dismissed it after the last failure; when
\* analyzeFiles threw, the error is the one of the throw and result and tab
\* are as before.
C28_FallbackSwitchesToLocal ==
  /\ [][\A r \in DOMAIN runs :
          ScoringCallFails(r) =>
            /\ ~useRemoteApi'
            /\ runs[r].pending > 1 => error' = FallbackMessage]_vars
  /\ [][~useRemoteApi /\ useRemoteApi' => ClickApiToggle]_vars
  /\ [][~useRemoteApi /\ HandleAnalyzeFiles => UNCHANGED runs]_vars
  /\ [][\A r \in DOMAIN runs :
          SettlesAfterFailure(r) =>
            /\ ~useRemoteApi'
            /\ ~loading'
            /\ IF AnalyzeFilesThrows(runs[r].selectedFiles)
               THEN /\ Len(error') = 2
                    /\ error'[1] = "Error analyzing files: "
                    /\ UNCHANGED <<analysisResult, activeTab>>
               ELSE /\ analysisResult' = AnalysisResultOf(runs[r].selectedFiles)
                    /\ activeTab' = "analysis"
                    /\ \/ error' = FallbackMessage
                       \/ /\ error' = NoError
                          /\ error = NoError
                          /\ ScoringCallReturns(r)]_vars

\* A run of two files has settled after a failed call: the result is
\* stored and shown, the fallback message is set and the remote option off.
C28_Witness ==
  /\ runs = <<>>
  /\ ~loading
  /\ ~useRemoteApi
  /\ error = FallbackMessage
  /\ activeTab = "analysis"
  /\ analysisResult
       = AnalysisResultOf(<<FileData(1, "valid"), FileData(2, "valid")>>)

\* The lists of files a step has passed to analyzeFiles: the one of a run
\* it started and the one of a result it stored.
NewlyPassed ==
  (IF runs' # runs /\ Len(runs') > Len(runs)
   THEN {runs'[Len(runs')].selectedFiles} ELSE {})
  \cup (IF analysisResult' # analysisResult /\ runs' = runs
        THEN {analysisResult'.files} ELSE {})

\* q holds files of the list fs, each once, in the order of fs.
InListOrder(q, fs) ==
  \E pos \in [DOMAIN q -> DOMAIN fs] :
    /\ \A i \in DOMAIN q : fs[pos[i]] = q[i]
    /\ \A i, j \in DOMAIN q : i < j => pos[i] < pos[j]

\* C29: the list handleAnalyzeFiles passes to analyzeFiles holds the
\* selected valid files once each in the order of the file list, so it is
\* the same for every order in which the same ids were ticked.
C29_PassedInListOrder ==
  [][HandleAnalyzeFiles =>
       \A q \in NewlyPassed :
         /\ InListOrder(q, files)
         /\ FileIds(q) = {id \in Range(selectedFileIds) :
                            \E k \in DOMAIN files :
                              files[k].id = id /\ files[k].isValid}]_vars

\* The second file of the list was ticked before the first; the run in
\* flight has them in the order of the list.
C29_Witness ==
  /\ selectedFileIds = <<2, 1>>
  /\ files = <<FileData(1, "valid"), FileData(2, "valid")>>
  /\ Len(runs) = 1
  /\ runs[1].selectedFiles = files

\* C30: in a result of analyzeFiles the comparison of two files has as
\* many rows as commonIds counts, and bestTexts has as many entries as
\* totalUniqueIds counts, whether the ids are numbers or strings.
C30_IdOutputsAgree ==
  Resolved /\ Records # {} =>
    /\ Len(selectedFiles) = 2 =>
         Len(result.comparison.data) = result.commonIds
    /\ Len(result.bestTexts) = result.totalUniqueIds
====
